---- MODULE Spec2Model ----
(***************************************************************************)
(* Model of server.py: a Flask application with one view, serve_html,      *)
(* bound to the URL '/', which answers with send_from_directory('.',       *)
(* 'AppsCode.html'), run by app.run(host='0.0.0.0', port=3000, debug=True).*)
(*                                                                         *)
(* The state is the server process, the files the application can serve    *)
(* (as the file system presents them: existence, bytes, read permission),  *)
(* and the requests in flight.  A request is a method and a URL path; it   *)
(* is served in the steps the handler takes against the file system        *)
(* (isfile, stat, open, read chunk by chunk), so that the steps of other   *)
(* requests and of external writers interleave with them.  Request headers  *)
(* (conditional and range requests) are not part of the model.             *)
(*                                                                         *)
(* Where a property below is checked against a variant of a definition,   *)
(* the variant stands right before the definition it varies.               *)
(***************************************************************************)
EXTENDS Integers, Sequences, FiniteSets, TLC

VARIABLES srv, exitCode, signalled, listen, inUse, cwd, fs, fsOps, versions, req

vars == <<srv, exitCode, signalled, listen, inUse, cwd, fs, fsOps, versions, req>>

(* ------------------------------ bounds -------------------------------- *)

\* longest file, in bytes
MaxLen == 2
\* bytes the file wrapper reads per step (a scaled-down read buffer)
ChunkSize == 1
\* requests made in one behaviour
MaxReqs == 2
\* changes external processes make to the files in one behaviour
MaxFsOps == 1

Bytes == {"a", "b"}

RECURSIVE SeqsUpTo(_)
SeqsUpTo(n) ==
    IF n = 0 THEN {<<>>}
    ELSE LET S == SeqsUpTo(n - 1)
         IN  S \cup {Append(s, b) : s \in {t \in S : Len(t) = n - 1}, b \in Bytes}

Contents == SeqsUpTo(MaxLen)

\* the complete versions of a file that writers put in place
Versions == {c \in Contents : Len(c) = MaxLen}

Reqs == 1..MaxReqs

(* --------------------------- the program ------------------------------ *)

\* app.run(host='0.0.0.0', port=3000, debug=True)
Host == "0.0.0.0"
Port == 3000

\* Flask(__name__): the application's root path is the directory that holds
\* the module, server.py; the process may be started from another directory.
RootPath == "app"
Dirs == {"app", "work"}

\* Flask(__name__) registers the default static folder of the application,
\* <root path>/static, under the URL rule /static/<path:filename>.
StaticFolder == "app/static"

FileName == "AppsCode.html"

Files == {<<"app", "AppsCode.html">>, <<"work", "AppsCode.html">>,
          <<"app/static", "style.css">>}

\* URL paths as sequences of segments: '/', '/missing', '/AppsCode.html',
\* '/static/style.css'
Paths == {<<>>, <<"missing">>, <<"AppsCode.html">>, <<"static", "style.css">>}

Methods == {"GET", "HEAD", "OPTIONS", "POST", "DELETE"}

\* @app.route('/') names no methods: the rule answers GET, and with it HEAD
\* and OPTIONS, which the framework adds to every rule.
\* (variant: the rule also answers POST)
RouteMethodsWithPost == {"GET", "HEAD", "OPTIONS", "POST"}

RouteMethods == {"GET", "HEAD", "OPTIONS"}

\* The URL map: the view's rule '/', and the static rule.
\* (variant: the file's own name is routed to the view as well)
EndpointFlat(path) ==
    IF path = <<>> \/ path = <<FileName>> THEN "serve_html"
    ELSE IF Len(path) = 2 /\ path[1] = "static" THEN "static"
    ELSE "none"

Endpoint(path) ==
    IF path = <<>> THEN "serve_html"
    ELSE IF Len(path) = 2 /\ path[1] = "static" THEN "static"
    ELSE "none"

\* send_from_directory('.', ...): a relative directory is taken relative to
\* the application's root path, not to the process's working directory.
\* (variant: relative to the working directory)
ResolveCwd(directory) == IF directory = "." THEN cwd ELSE directory

Resolve(directory) == IF directory = "." THEN RootPath ELSE directory

\* The file a matched request is answered from.
Target(path) ==
    IF Endpoint(path) = "serve_html" THEN <<Resolve("."), FileName>>
    ELSE <<StaticFolder, path[2]>>

\* The content type follows from the file name's extension.
Ext(name) ==
    CASE name = "AppsCode.html" -> "html"
      [] name = "style.css" -> "css"
      [] OTHER -> ""

\* (variant: the extension is ignored)
MimeTypeOctet(name) == "application/octet-stream"

MimeType(name) ==
    CASE Ext(name) = "html" -> "text/html"
      [] Ext(name) = "css" -> "text/css"
      [] OTHER -> "application/octet-stream"

\* The framework's error pages and its OPTIONS answer are text/html.
PageType == "text/html"

\* The statuses of the framework's answers.
Ok == 200
NotFound == 404
MethodNotAllowed == 405
InternalServerError == 500

\* AppsCode.html under the application's root path
AppFile == <<RootPath, FileName>>

Absent == [exists |-> FALSE, data |-> <<>>, readable |-> FALSE]

File(c) == [exists |-> TRUE, data |-> c, readable |-> TRUE]

Idle ==
    [pc |-> "idle", method |-> "GET", path |-> <<>>, file |-> <<"", "">>,
     epoch |-> 0, ov |-> 0, att |-> FALSE, snap |-> <<>>, size |-> 0,
     off |-> 0, body |-> <<>>, status |-> 0, ctype |-> "", sent |-> 0,
     prior |-> {}]

InFlight(r) == req[r].pc \notin {"idle", "done"}

Done(r) == req[r].pc = "done"

\* A response goes out and the request is over.
Respond(rec, status, ctype) ==
    [rec EXCEPT !.pc = "done", !.status = status, !.ctype = ctype,
                !.sent = rec.sent + 1, !.att = FALSE, !.snap = <<>>]

\* An exception the view raises is caught by the server (the debugger's
\* error page goes out with status 500); the process keeps running.
\* (variant: the exception ends the process)
OnHandlerErrorExit(s) == "exited"

OnHandlerError(s) == s

Min(a, b) == IF a < b THEN a ELSE b

TypeOK ==
    /\ srv \in {"init", "serving", "exited"}
    /\ cwd \in Dirs
    /\ fsOps \in 0..MaxFsOps
    /\ \A f \in Files : fs[f].data \in Contents
    /\ \A r \in Reqs : req[r].body \in Seq(Bytes)

\* The program before app.run: the port free or taken by another process,
\* the process started in the directory of server.py or in another one (which
\* may hold an AppsCode.html of its own, with other bytes), AppsCode.html
\* next to server.py missing, readable or unreadable, the static folder with
\* or without a file.
Init ==
    /\ srv = "init"
    /\ exitCode = 0
    /\ signalled = FALSE
    /\ listen = <<>>
    /\ inUse \in {{}, {Port}}
    /\ cwd \in Dirs
    /\ fs \in [Files -> {Absent, File(<<"a", "b">>), File(<<"b", "a">>),
                           [File(<<"a", "b">>) EXCEPT !.readable = FALSE]}]
    /\ fs[AppFile] \in {Absent, File(<<"a", "b">>),
                         [File(<<"a", "b">>) EXCEPT !.readable = FALSE]}
    /\ fs[<<"work", FileName>>] \in
           IF cwd = RootPath THEN {Absent} ELSE {Absent, File(<<"b", "a">>)}
    /\ fs[<<StaticFolder, "style.css">>] \in {Absent, File(<<"b", "a">>)}
    /\ fsOps = 0
    /\ versions = IF fs[AppFile].exists THEN {fs[AppFile].data} ELSE {}
    /\ req = [r \in Reqs |-> Idle]

Start ==
    /\ srv = "init"
    /\ IF Port \in inUse
         THEN /\ srv' = "exited"
              /\ exitCode' = 1
              /\ UNCHANGED listen
         ELSE /\ srv' = "serving"
              /\ listen' = <<Host, Port>>
              /\ UNCHANGED exitCode
    /\ UNCHANGED <<signalled, inUse, cwd, fs, fsOps, versions, req>>

\* The state of the file a request is answered from, and of AppsCode.html
\* under the root path for a request no rule sends to a file.
FileOf(p) ==
    IF Endpoint(p) = "none" THEN AppFile ELSE Target(p)

\* A request arrives and is routed: no rule for the path is 404, a rule that
\* does not answer the method is 405, OPTIONS is answered by the framework
\* without calling the view, and GET and HEAD call the view.
Receive(r, m, p) ==
    /\ srv = "serving"
    /\ req[r].pc = "idle"
    /\ \A q \in Reqs : q < r => req[q].pc # "idle"
    /\ LET base == [Idle EXCEPT !.method = m, !.path = p,
                                !.file = FileOf(p), !.epoch = fsOps,
                                !.prior = {q \in Reqs : Done(q)}]
           mine == IF Endpoint(p) = "none" THEN Respond(base, NotFound, PageType)
                   ELSE IF m \notin RouteMethods THEN Respond(base, MethodNotAllowed, PageType)
                   ELSE IF m = "OPTIONS" THEN Respond(base, Ok, PageType)
                   ELSE [base EXCEPT !.pc = "isfile"]
       IN  req' = [req EXCEPT ![r] = mine]
    /\ UNCHANGED <<srv, exitCode, signalled, listen, inUse, cwd, fs, fsOps, versions>>

\* send_from_directory: a path that is no regular file is NotFound.
\* (variant: the missing file is an error of the server)
MissingStatusError(f) == InternalServerError

MissingStatus(f) == NotFound

IsFile(r) ==
    /\ srv = "serving"
    /\ req[r].pc = "isfile"
    /\ req' = [req EXCEPT ![r] =
                 IF fs[req[r].file].exists
                   THEN [@ EXCEPT !.pc = "stat"]
                   ELSE Respond(@, MissingStatus(req[r].file), PageType)]
    /\ UNCHANGED <<srv, exitCode, signalled, listen, inUse, cwd, fs, fsOps, versions>>

\* An OSError out of stat or open is an unhandled exception of the view.
\* (variant: every failure to read is answered as a missing file)
OpenErrorStatusNotFound(f) == NotFound

OpenErrorStatus(f) == InternalServerError

\* send_file stats the path for the announced length ...
Stat(r) ==
    /\ srv = "serving"
    /\ req[r].pc = "stat"
    /\ IF fs[req[r].file].exists
         THEN /\ req' = [req EXCEPT ![r] =
                           [@ EXCEPT !.pc = "open",
                                     !.size = Len(fs[req[r].file].data)]]
              /\ UNCHANGED srv
         ELSE /\ req' = [req EXCEPT ![r] = Respond(@, OpenErrorStatus(req[r].file), PageType)]
              /\ srv' = OnHandlerError(srv)
    /\ UNCHANGED <<exitCode, signalled, listen, inUse, cwd, fs, fsOps, versions>>

\* What the request's open handle reads: the file at its path while the
\* handle's file is still the one at the path, else the bytes the file had
\* when it was unlinked or replaced.
\* (variant: the bytes an earlier request served are kept and served again)
HandleDataCached(r) ==
    IF \E q \in req[r].prior : req[q].status = 200 /\ req[q].file = req[r].file
      THEN req[CHOOSE q \in req[r].prior :
                 req[q].status = 200 /\ req[q].file = req[r].file].body
      ELSE IF req[r].att THEN fs[req[r].file].data ELSE req[r].snap

HandleData(r) == IF req[r].att THEN fs[req[r].file].data ELSE req[r].snap

\* Each request reads through its own handle, at its own position.
\* (variant: the requests being read share one position)
ReadPosShared(r) ==
    LET S == {req[q].off : q \in {x \in Reqs : req[x].pc = "read"}}
    IN  CHOOSE n \in S : \A k \in S : k <= n

ReadPos(r) == req[r].off

\* A handle is opened per request and starts at the first byte.
\* (variant: one handle is kept across requests, and its position with it)
StartPosKept(r) ==
    LET S == {Len(req[q].body) : q \in req[r].prior} \cup {0}
    IN  CHOOSE n \in S : \A k \in S : k <= n

StartPos(r) == 0

\* ... and then opens it; the status and the headers are settled here.  A
\* HEAD request gets them without the body.
Open(r) ==
    /\ srv = "serving"
    /\ req[r].pc = "open"
    /\ LET f == fs[req[r].file]
       IN  IF f.exists /\ f.readable
             THEN /\ req' = [req EXCEPT ![r] =
                               IF @.method = "HEAD"
                                 THEN Respond(@, Ok, MimeType(req[r].file[2]))
                                 ELSE [@ EXCEPT !.pc = "read", !.status = Ok,
                                                !.ctype = MimeType(req[r].file[2]),
                                                !.off = StartPos(r),
                                                !.att = TRUE]]
                  /\ UNCHANGED srv
             ELSE /\ req' = [req EXCEPT ![r] =
                               Respond(@, OpenErrorStatus(req[r].file), PageType)]
                  /\ srv' = OnHandlerError(srv)
    /\ UNCHANGED <<exitCode, signalled, listen, inUse, cwd, fs, fsOps, versions>>

\* (variant: the last byte of the file is never read)
ChunkShort(data, pos) == SubSeq(data, pos + 1, Min(pos + ChunkSize, Len(data) - 1))

Chunk(data, pos) == SubSeq(data, pos + 1, Min(pos + ChunkSize, Len(data)))

\* The file wrapper hands the server one chunk per step, until a read
\* returns nothing.
Read(r) ==
    /\ srv = "serving"
    /\ req[r].pc = "read"
    /\ LET c == Chunk(HandleData(r), ReadPos(r))
       IN  req' = [req EXCEPT ![r] =
                     IF c = <<>>
                       THEN Respond(@, @.status, @.ctype)
                       ELSE [@ EXCEPT !.body = @ \o c,
                                      !.off = ReadPos(r) + Len(c)]]
    /\ UNCHANGED <<srv, exitCode, signalled, listen, inUse, cwd, fs, fsOps, versions>>

\* app.run serves until the process is signalled; its requests end with it.
Signal ==
    /\ srv = "serving"
    /\ srv' = "exited"
    /\ signalled' = TRUE
    /\ req' = [r \in Reqs |-> Idle]
    /\ UNCHANGED <<exitCode, listen, inUse, cwd, fs, fsOps, versions>>

(* --------------------- the files' other users ------------------------- *)

Max(a, b) == IF a > b THEN a ELSE b

\* The requests in flight on f see a change of it: level 1 for its unlinking
\* or a change of its permissions, 2 for a change of its bytes.  A handle
\* open on a file that leaves its path keeps the file's bytes.
Seen(f, level, leaves) ==
    [r \in Reqs |->
       IF InFlight(r) /\ req[r].file = f
         THEN [req[r] EXCEPT !.ov = Max(@, level),
                             !.snap = IF leaves /\ req[r].att
                                        THEN fs[f].data ELSE @,
                             !.att = IF leaves THEN FALSE ELSE @]
         ELSE req[r]]

EnvStep ==
    /\ srv = "serving"
    /\ fsOps < MaxFsOps
    /\ fsOps' = fsOps + 1
    /\ versions' = IF fs'[AppFile].exists
                     THEN versions \cup {fs'[AppFile].data} ELSE versions
    /\ UNCHANGED <<srv, exitCode, signalled, listen, inUse, cwd>>

\* A new file is moved over the path (a write to a temporary and a rename).
Replace(f, c) ==
    /\ fs[f] # File(c)
    /\ fs' = [fs EXCEPT ![f] = File(c)]
    /\ req' = Seen(f, 2, TRUE)
    /\ EnvStep

Truncate(f) ==
    /\ fs[f].exists /\ fs[f].data # <<>>
    /\ fs' = [fs EXCEPT ![f].data = <<>>]
    /\ req' = Seen(f, 2, FALSE)
    /\ EnvStep

Write(f, d) ==
    /\ fs[f].exists /\ d # <<>>
    /\ fs' = [fs EXCEPT ![f].data = d \o SubSeq(@, Len(d) + 1, Len(@))]
    /\ req' = Seen(f, 2, FALSE)
    /\ EnvStep

Delete(f) ==
    /\ fs[f].exists
    /\ fs' = [fs EXCEPT ![f] = Absent]
    /\ req' = Seen(f, 1, TRUE)
    /\ EnvStep

Chmod(f) ==
    /\ fs[f].exists
    /\ fs' = [fs EXCEPT ![f].readable = ~@]
    /\ req' = Seen(f, 1, FALSE)
    /\ EnvStep

\* The file external processes rewrite while the server runs: the one the
\* view serves.
Served == {AppFile}

Next ==
    \/ Start
    \/ Signal
    \/ \E r \in Reqs, m \in Methods, p \in Paths : Receive(r, m, p)
    \/ \E r \in Reqs : IsFile(r)
    \/ \E r \in Reqs : Stat(r)
    \/ \E r \in Reqs : Open(r)
    \/ \E r \in Reqs : Read(r)
    \/ \E f \in Served, c \in Versions : Replace(f, c)
    \/ \E f \in Served : Truncate(f)
    \/ \E f \in Served, d \in Contents : Write(f, d)
    \/ \E f \in Served : Delete(f)
    \/ \E f \in Served : Chmod(f)

Spec == Init /\ [][Next]_vars

(* ----------------------------- properties ----------------------------- *)

Root == <<>>

\* r is a finished GET request to '/'
GetRoot(r) == Done(r) /\ req[r].method = "GET" /\ req[r].path = Root

\* the served file has not changed since r arrived
Current(r) == req[r].epoch = fsOps

Readable(f) == fs[f].exists /\ fs[f].readable

\* r1 and r2 were in flight at the same time
Overlap(r1, r2) ==
    /\ r1 # r2
    /\ req[r1].pc # "idle" /\ req[r2].pc # "idle"
    /\ r1 \notin req[r2].prior /\ r2 \notin req[r1].prior

C3_Original ==
    \A r \in Reqs :
        Done(r) /\ req[r].path = Root /\ req[r].method # "GET" =>
            req[r].status \in {404, 405}

\* C3 amended: a request to '/' whose method is none of GET, HEAD and
\* OPTIONS (POST, DELETE, ...) is answered 405 with no file bytes.  HEAD is
\* answered as GET is but without a body (200 when the file is there), and
\* OPTIONS is answered 200 without a body.
C3_OtherMethodsAre405 ==
    \A r \in Reqs :
        Done(r) /\ req[r].path = Root =>
            /\ req[r].method \notin {"GET", "HEAD", "OPTIONS"} =>
                   req[r].status = 405 /\ req[r].body = <<>>
            /\ req[r].method = "OPTIONS" =>
                   req[r].status = 200 /\ req[r].body = <<>>
            /\ req[r].method = "HEAD" =>
                   /\ req[r].body = <<>>
                   /\ Current(r) /\ Readable(AppFile) => req[r].status = 200

C3_Witness ==
    \E r \in Reqs :
        /\ Done(r) /\ req[r].path = Root /\ req[r].method = "POST"
        /\ Current(r) /\ Readable(AppFile)
        /\ req[r].status = 405

\* C4: a GET request to '/' made while AppsCode.html does not exist is
\* answered 404, and one made while it exists but cannot be read is answered
\* 500; either way one response goes out and the server keeps serving.
C4_MissingOrUnreadable ==
    \A r \in Reqs :
        GetRoot(r) /\ Current(r) =>
            /\ ~fs[AppFile].exists =>
                   req[r].status = 404 /\ req[r].body = <<>> /\ req[r].sent = 1
            /\ fs[AppFile].exists /\ ~fs[AppFile].readable =>
                   req[r].status = 500 /\ req[r].body = <<>> /\ req[r].sent = 1
            /\ req[r].status \in {404, 500} => srv = "serving"

\* A request answered 500, the file then deleted, and a later request
\* answered 404 by the same server.
C4_Witness ==
    \E r1, r2 \in Reqs :
        /\ GetRoot(r1) /\ GetRoot(r2) /\ r1 \in req[r2].prior
        /\ req[r1].status = 500 /\ req[r1].sent = 1
        /\ req[r2].status = 404 /\ Current(r2) /\ ~fs[AppFile].exists

\* AppsCode.html in the process's working directory
CwdFile == <<cwd, "AppsCode.html">>

\* C5 as stated: with a working directory that is not the directory of
\* server.py, GET '/' answers with the working directory's AppsCode.html
\* (404 if it has none), never with the copy next to server.py.
C5_Original ==
    \A r \in Reqs :
        GetRoot(r) /\ Current(r) /\ cwd # "app" =>
            /\ Readable(CwdFile) =>
                   req[r].status = 200 /\ req[r].body = fs[CwdFile].data
            /\ ~fs[CwdFile].exists => req[r].status = 404

\* C5 amended: the file served for GET '/' is AppsCode.html resolved against
\* the application's root path, the directory that holds server.py: with a
\* working directory that differs from it, the response carries the copy
\* next to server.py (404 if there is none), never the working directory's.
C5_ServedFromRootPath ==
    \A r \in Reqs :
        GetRoot(r) /\ Current(r) /\ cwd # "app" =>
            /\ Readable(<<"app", "AppsCode.html">>) =>
                   /\ req[r].status = 200
                   /\ req[r].body = fs[<<"app", "AppsCode.html">>].data
            /\ ~fs[<<"app", "AppsCode.html">>].exists =>
                   req[r].status = 404 /\ req[r].body = <<>>

C5_Witness ==
    \E r \in Reqs :
        /\ GetRoot(r) /\ Current(r) /\ cwd = "work"
        /\ Readable(CwdFile) /\ Readable(<<"app", "AppsCode.html">>)
        /\ req[r].status = 200
        /\ req[r].body = fs[<<"app", "AppsCode.html">>].data
        /\ req[r].body # fs[CwdFile].data

\* The body of r is all of one version of the file, announced at its length,
\* or r carries no file bytes at all.
WholeOrNone(r) ==
    IF req[r].status = 200
      THEN req[r].body \in versions /\ Len(req[r].body) = req[r].size
      ELSE req[r].body = <<>>

\* C6 as stated: whatever rewrite, truncation or deletion of the file a
\* GET '/' request overlaps, its body is the whole of one version or nothing.
C6_Original == \A r \in Reqs : GetRoot(r) => WholeOrNone(r)

\* C6 amended: a GET '/' request during which the file's bytes are not
\* rewritten, truncated or replaced (its deletion and a change of its
\* permissions included) has a body that is the whole of one version of the
\* file, of the announced length, or no file bytes at all.
C6_WholeOrNoneUnlessRewritten ==
    \A r \in Reqs : GetRoot(r) /\ req[r].ov <= 1 => WholeOrNone(r)

\* The file was deleted while r read it, and r carries all of it.
C6_Witness ==
    \E r \in Reqs :
        /\ GetRoot(r) /\ req[r].ov = 1 /\ ~fs[AppFile].exists
        /\ req[r].status = 200 /\ req[r].body = <<"a", "b">> /\ req[r].size = 2

C8_ConcurrentRequests ==
    \A r1, r2 \in Reqs :
        /\ GetRoot(r1) /\ GetRoot(r2) /\ Overlap(r1, r2)
        /\ Current(r1) /\ Current(r2) /\ Readable(AppFile)
        => /\ req[r1].status = 200 /\ req[r2].status = 200
           /\ req[r1].body = req[r2].body
           /\ req[r1].body = fs[AppFile].data

C8_Witness ==
    \E r1, r2 \in Reqs :
        /\ GetRoot(r1) /\ GetRoot(r2) /\ Overlap(r1, r2)
        /\ Current(r1) /\ Current(r2) /\ Readable(AppFile)
        /\ req[r1].status = 200 /\ req[r1].body = <<"a", "b">>
        /\ req[r2].body = req[r1].body

SameResponse(r1, r2) ==
    /\ req[r1].status = req[r2].status
    /\ req[r1].body = req[r2].body
    /\ req[r1].ctype = req[r2].ctype

\* C9: GET '/' requests repeated while the file is unchanged get the same
\* status, body and content type, and serving a request changes no file.
C9_Idempotent ==
    /\ [](\A r1, r2 \in Reqs :
            /\ GetRoot(r1) /\ GetRoot(r2)
            /\ req[r1].epoch = req[r2].epoch
            /\ req[r1].ov = 0 /\ req[r2].ov = 0
            => SameResponse(r1, r2))
    /\ [][fs' # fs => fsOps' # fsOps]_vars

C9_Witness ==
    \E r1, r2 \in Reqs :
        /\ GetRoot(r1) /\ GetRoot(r2) /\ r1 \in req[r2].prior
        /\ req[r1].epoch = req[r2].epoch /\ req[r2].ov = 0
        /\ req[r1].status = 200 /\ req[r1].body = <<"a", "b">>
        /\ SameResponse(r1, r2)

\* C10: the program listens on 0.0.0.0:3000 and serves until it is
\* signalled: no request and no error in a handler ends the process.  If the
\* port cannot be bound it serves no request and exits non-zero.
C10_ServesUntilSignalled ==
    /\ [](srv = "serving" => listen = <<"0.0.0.0", 3000>>)
    /\ [](3000 \in inUse =>
            /\ srv # "serving"
            /\ \A r \in Reqs : req[r].pc = "idle"
            /\ srv = "exited" => exitCode # 0)
    /\ [][srv = "serving" /\ srv' # "serving" => signalled']_vars

\* A handler failed with an exception, and the server goes on to serve.
C10_Witness ==
    \E r1, r2 \in Reqs :
        /\ Done(r1) /\ req[r1].status = 500 /\ r1 \in req[r2].prior
        /\ Done(r2) /\ srv = "serving" /\ ~signalled
        /\ listen = <<"0.0.0.0", 3000>>

====
